---- MODULE Spec2Model ----
(***************************************************************************)
(* The logging middleware: Logger (core/Logger), LogBuffer, StorageAdapter *)
(* and RemoteAdapter.  A log entry is identified by the number of the      *)
(* log() call that created it (1, 2, 3, ...), so "older" means "smaller".  *)
(***************************************************************************)
EXTENDS Integers, Sequences, FiniteSets, TLC

\* ------------------------------------------------------------------ bounds
MaxLogs == 2          \* entries created by log() in one behaviour
MaxBuf == 2           \* largest ring-buffer size given to the constructor
MaxStore == 2         \* largest durable capacity given to the constructor
MaxCalls == 5         \* add() or store() calls on a LogBuffer or StorageAdapter alone
MaxAttempts == 4      \* largest attempt count given to setRetryConfig

\* ------------------------------------------------------------- sequences
LastN(s, n) == IF n >= Len(s) THEN s ELSE SubSeq(s, Len(s) - n + 1, Len(s))

Count(s, x) == Cardinality({i \in 1..Len(s) : s[i] = x})

Range(s) == {s[i] : i \in 1..Len(s)}

IsOrdered(s) == \A i, j \in 1..Len(s) : i < j => s[i] < s[j]

RemoveAt(s, i) == SubSeq(s, 1, i - 1) \o SubSeq(s, i + 1, Len(s))

\* ---------------------------------------------------------------- levels
Levels == <<"DEBUG", "INFO", "WARN", "ERROR", "FATAL">>

LevelSet == Range(Levels)

\* Array.prototype.indexOf: zero-based, -1 when absent
IndexOf(s, x) == IF x \in Range(s) THEN (CHOOSE i \in 1..Len(s) : s[i] = x) - 1 ELSE -1

ShouldLogNoFilter(lvl, threshold) == TRUE

ShouldLog(lvl, threshold) == IndexOf(Levels, lvl) >= IndexOf(Levels, threshold)

\* ------------------------------------------------------------- LogBuffer
ClampSize(n) == IF n > 1 THEN n ELSE 1

BufferAddUnbounded(buf, max, e) == Append(buf, e)

BufferAddDropNewest(buf, max, e) == IF Len(buf) >= max THEN buf ELSE Append(buf, e)

BufferAdd(buf, max, e) ==
  LET b == Append(buf, e) IN IF Len(b) > max THEN Tail(b) ELSE b

IsFull(buf, max) == Len(buf) >= max

ClearBufferKeeps(buf) == buf

\* LogBuffer.clear
ClearBuffer(buf) == <<>>

RECURSIVE TrimFront(_, _)
TrimFront(buf, max) == IF Len(buf) > max THEN TrimFront(Tail(buf), max) ELSE buf

\* entries.forEach(entry => this.buffer.add(entry))
RECURSIVE Requeue(_, _, _)
Requeue(buf, max, entries) ==
  IF entries = <<>> THEN buf
  ELSE Requeue(BufferAdd(buf, max, Head(entries)), max, Tail(entries))

\* -------------------------------------------------------- StorageAdapter
\* existingLogs.splice(0, existingLogs.length - maxEntries) when over the bound
TrimToMaxOffByOne(logs, max) == IF Len(logs) > max + 1 THEN LastN(logs, max + 1) ELSE logs

TrimToMax(logs, max) == IF Len(logs) > max THEN LastN(logs, max) ELSE logs

\* logs.slice(-k): the last k entries, and the whole array when k is 0
SliceLast(logs, k) == IF k = 0 THEN logs ELSE LastN(logs, k)

ClearOldKeep(logs, max) == SliceLast(logs, max \div 2)

\* One store(entry) call.  outs lists the outcomes of the successive
\* localStorage.setItem calls ("ok", "quota", "other"); every call after the
\* listed ones has the outcome tail.  attempts counts the setItem calls that
\* store() makes for the entry (in the overflow case, those made before the
\* listed outcomes ran out).  cleanOk and kept: whether the write of the first
\* clearOldEntries succeeded, and the entries it left persisted.  overflow: the quota error never stops, so the
\* recursion of store() ends only by exhausting the call stack.
RECURSIVE StoreRun(_, _, _, _, _)
StoreRun(logs, max, e, outs, tail) ==
  LET w1 == IF outs = <<>> THEN tail ELSE Head(outs)
      r1 == IF outs = <<>> THEN <<>> ELSE Tail(outs)
      w2 == IF r1 = <<>> THEN tail ELSE Head(r1)
      r2 == IF r1 = <<>> THEN <<>> ELSE Tail(r1)
  IN  IF w1 = "ok"
        THEN [persisted |-> TrimToMax(Append(logs, e), max), wrote |-> TRUE,
              cleaned |-> FALSE, overflow |-> FALSE, attempts |-> 1,
              cleanOk |-> FALSE, kept |-> <<>>]
      ELSE IF w1 = "other"
        THEN [persisted |-> logs, wrote |-> FALSE, cleaned |-> FALSE, overflow |-> FALSE,
              attempts |-> 1, cleanOk |-> FALSE, kept |-> <<>>]
      ELSE IF outs = <<>>
        THEN [persisted |-> <<>>, wrote |-> FALSE, cleaned |-> TRUE, overflow |-> TRUE,
              attempts |-> 1, cleanOk |-> FALSE, kept |-> <<>>]
      ELSE [StoreRun(IF w2 = "ok" THEN ClearOldKeep(logs, max) ELSE <<>>, max, e, r2, tail)
              EXCEPT !.cleaned = TRUE, !.attempts = @ + 1, !.cleanOk = (w2 = "ok"),
                     !.kept = IF w2 = "ok" THEN ClearOldKeep(logs, max) ELSE <<>>]

\* --------------------------------------------------------- RemoteAdapter
NewRemoteAdapter(endpoint) == [endpoint |-> endpoint, retryAttempts |-> 3, retryDelay |-> 1000]

SendStartsAlways(endpoint, entries) == TRUE

\* sendBatch goes on unless !this.endpoint || entries.length === 0
SendStarts(endpoint, entries) == ~(endpoint = "" \/ Len(entries) = 0)

LoopContinuesOffByOne(attempt, retryAttempts) == attempt <= retryAttempts + 1

LoopContinues(attempt, retryAttempts) == attempt <= retryAttempts

NeedsDelay(attempt, retryAttempts) == attempt < retryAttempts

BackoffConstant(retryDelay, attempt) == retryDelay

BackoffDelay(retryDelay, attempt) == retryDelay * attempt

NewSendSettled(entries, caller) ==
  [batch |-> entries, attempt |-> 1, phase |-> "request", tries |-> <<"ok">>,
   waits |-> <<>>, caller |-> caller]

\* sendBatch up to its first await: the first request has been made, not settled
NewSend(entries, caller) ==
  [batch |-> entries, attempt |-> 1, phase |-> "request", tries |-> <<>>,
   waits |-> <<>>, caller |-> caller]

\* ------------------------------------------------------------------ state
VARIABLES
  config,       \* Logger.config
  buffer,       \* LogBuffer.buffer of the Logger
  bufMax,       \* LogBuffer.maxSize
  persisted,    \* the entries under localStorage key logging_middleware_entries
  storeMax,     \* StorageAdapter.maxEntries of the current storage adapter
  remote,       \* the current RemoteAdapter: endpoint, retryAttempts, retryDelay
  inflight,     \* the sendBatch calls that have not completed, oldest first
  flushTimer,   \* Logger.flushTimer: the last interval handle (0: undefined)
  liveTimers,   \* the intervals not cleared: handle h, period every
  nextId,       \* the number of the next entry
  clock,        \* the time that Date.now() and performance.now() report
  handlers,     \* the Loggers whose error handlers window has registered
  destroyed,    \* destroy() of the Logger has returned
  session,      \* the record under sessionStorage key logging_middleware_session
  sessionId,    \* SessionManager.sessionId of the newest SessionManager
  sessionStartTime, \* SessionManager.sessionStartTime
  minted,       \* the session ids generated so far
  measurements, \* PerformanceTracker.measurements: label -> start time
  pending,      \* the promises that measure() returned and that have not settled
  op            \* the last operation and what its caller observed

sessionVars == <<session, sessionId, sessionStartTime, minted>>

trackerVars == <<measurements, pending>>

vars == <<config, buffer, bufMax, persisted, storeMax, remote, inflight,
          flushTimer, liveTimers, nextId, clock, handlers, destroyed,
          sessionVars, trackerVars, op>>

Merge(cfg, p) == [k \in DOMAIN cfg |-> IF k \in DOMAIN p THEN p[k] ELSE cfg[k]]

\* an absent session id, the ids that generateSessionId makes and the ids
\* that a caller puts into the configuration
NoId == <<>>

GeneratedId(n) == <<"generated", n>>

GivenId(n) == <<"given", n>>

DefaultConfig ==
  [level |-> "INFO", enableConsole |-> TRUE, enableStorage |-> TRUE,
   enableRemote |-> FALSE, maxStorageEntries |-> MaxStore, bufferSize |-> MaxBuf,
   flushInterval |-> 5000, remoteEndpoint |-> "", sessionId |-> NoId]

\* the sessionId of a partial configuration
Given(c) == IF "sessionId" \in DOMAIN c THEN c.sessionId ELSE NoId

\* ---- SessionManager
MomentsPerDay == 2    \* moments of the clock in one calendar day
DaysPerMonth == 2     \* days in a month of the calendar
MonthsPerYear == 2    \* months in a year of the calendar

\* sessionStorage holds no record
NoSession == [id |-> NoId]

\* getFullYear(), getMonth() and getDate() of the Date of a moment
DateOf(t) ==
  [year |-> t \div (MomentsPerDay * DaysPerMonth * MonthsPerYear),
   month |-> (t \div (MomentsPerDay * DaysPerMonth)) % MonthsPerYear,
   date |-> (t \div MomentsPerDay) % DaysPerMonth]

IsSameDayOfMonth(date1, date2) == DateOf(date1).date = DateOf(date2).date

\* SessionManager.isSameDay
IsSameDay(date1, date2) ==
  /\ DateOf(date1).year = DateOf(date2).year
  /\ DateOf(date1).month = DateOf(date2).month
  /\ DateOf(date1).date = DateOf(date2).date

\* SessionManager.createNewSession: the record carries the manager's start time
CreateNewSession(startTime, n) ==
  [sessionId |-> GeneratedId(n + 1),
   session |-> [id |-> GeneratedId(n + 1), startTime |-> startTime],
   minted |-> n + 1]

\* SessionManager.loadOrCreateSession
LoadOrCreateSession(stored, startTime, now, n) ==
  IF stored # NoSession /\ IsSameDay(stored.startTime, now)
    THEN [sessionId |-> stored.id, session |-> stored, minted |-> n]
    ELSE CreateNewSession(startTime, n)

\* new SessionManager() at a moment
NewSessionManager(stored, now, n) == LoadOrCreateSession(stored, now, now, n)

\* ---- PerformanceTracker
\* new Map(), Map.get (Undefined for a missing key), Map.set and Map.delete
EmptyMap == [k \in {} |-> 0]

Undefined == -1

MapGet(m, k) == IF k \in DOMAIN m THEN m[k] ELSE Undefined

MapSet(m, k, v) == [x \in DOMAIN m \cup {k} |-> IF x = k THEN v ELSE m[x]]

MapDelete(m, k) == [x \in DOMAIN m \ {k} |-> m[x]]

\* !startTime
Falsy(startTime) == startTime = Undefined \/ startTime = 0

\* PerformanceTracker.start
StartRun(m, label, now) == [measurements |-> MapSet(m, label, now), logged |-> <<"debug">>]

EndRunMeasures(m, label, now) ==
  [measurements |-> MapDelete(m, label), result |-> now - MapGet(m, label),
   logged |-> <<"info">>]

\* PerformanceTracker.end
EndRun(m, label, now) ==
  IF Falsy(MapGet(m, label))
    THEN [measurements |-> m, result |-> 0, logged |-> <<"warn">>]
    ELSE [measurements |-> MapDelete(m, label), result |-> now - MapGet(m, label),
          logged |-> <<"info">>]

\* the errors that reach the caller of measure
NoError == "none"

FnError == "the error of fn"

\* measure on a value of fn: end(label), then the value is returned
MeasureReturn(m, label, now) ==
  [measurements |-> EndRun(m, label, now).measurements, calls |-> <<"end">>,
   logged |-> EndRun(m, label, now).logged, thrown |-> NoError]

MeasureCatchNoEnd(m, label, now, error) ==
  [measurements |-> m, calls |-> <<>>, logged |-> <<"error">>, thrown |-> error]

\* measure on an error of fn: end(label), logger.error, throw error
MeasureCatch(m, label, now, error) ==
  [measurements |-> EndRun(m, label, now).measurements, calls |-> <<"end">>,
   logged |-> EndRun(m, label, now).logged \o <<"error">>, thrown |-> error]

\* the configurations given to the constructor
ConstructorConfigs == { [bufferSize |-> b] : b \in 1..MaxBuf }

\* the partial configurations given to setConfig
Partials ==
  { [enableRemote |-> TRUE], [enableRemote |-> FALSE], [remoteEndpoint |-> "e1"],
    [flushInterval |-> 0], [flushInterval |-> 5000] }

\* the behaviours of localStorage.setItem during one store() call
Outcomes == {"ok", "quota", "other"}

StoreEnvs ==
  { [outs |-> o, tail |-> t, throws |-> x] :
      o \in {<<>>} \cup {<<a>> : a \in Outcomes} \cup {<<a, b>> : a, b \in Outcomes}
             \cup {<<a, b, c>> : a, b, c \in Outcomes},
      t \in {"ok", "quota"}, x \in BOOLEAN }

\* one environment for each way a store() call can end
LoggerStoreEnvs ==
  { [outs |-> o, tail |-> "ok", throws |-> FALSE] :
      o \in { <<>>, <<"other">>, <<"quota", "ok">>, <<"quota", "quota">>,
              <<"quota", "ok", "other">>, <<"quota", "other", "other">> } } \cup
  { [outs |-> <<>>, tail |-> "quota", throws |-> x] : x \in BOOLEAN }

NoEnv == [outs |-> <<>>, tail |-> "ok", throws |-> FALSE]

\* Logger.initializeAutoFlush: a new interval when flushInterval > 0
\* setInterval returns a handle that no live interval has
NewHandle(handle, live) ==
  CHOOSE h \in 1..(Cardinality(live) + 1) : h \notin {t.h : t \in live}

AutoFlushTimer(interval, handle, live) ==
  IF interval > 0
    THEN [flushTimer |-> NewHandle(handle, live),
          liveTimers |-> live \cup {[h |-> NewHandle(handle, live), every |-> interval]}]
    ELSE [flushTimer |-> handle, liveTimers |-> live]

ClearTimerKeeps(handle, live) == live

\* clearInterval(this.flushTimer) when a handle is set
ClearTimer(handle, live) ==
  IF handle # 0 THEN {t \in live : t.h # handle} ELSE live

\* Logger.constructor
LoggerNew(c) ==
    /\ clock = 0
    /\ session = NewSessionManager(NoSession, clock, 0).session
    /\ sessionId = NewSessionManager(NoSession, clock, 0).sessionId
    /\ sessionStartTime = clock
    /\ minted = NewSessionManager(NoSession, clock, 0).minted
    /\ config = [Merge(DefaultConfig, c) EXCEPT !.sessionId = sessionId]
    /\ buffer = <<>>
    /\ bufMax = ClampSize(config.bufferSize)
    /\ persisted = <<>>
    /\ storeMax = config.maxStorageEntries
    /\ remote = NewRemoteAdapter(config.remoteEndpoint)
    /\ inflight = <<>>
    /\ flushTimer = AutoFlushTimer(config.flushInterval, 0, {}).flushTimer
    /\ liveTimers = AutoFlushTimer(config.flushInterval, 0, {}).liveTimers
    /\ nextId = 1
    /\ handlers = 1
    /\ destroyed = FALSE
    /\ measurements = EmptyMap
    /\ pending = <<>>
    /\ op = [name |-> "new", given |-> Given(c)]

LoggerInit == \E c \in ConstructorConfigs : LoggerNew(c)

\* Logger.flush up to its first suspension: the drain and the start of sendBatch
FlushRunAnyway(buf, infl, enableRemote, endpoint) ==
  [buffer |-> <<>>,
   inflight |-> IF SendStarts(endpoint, buf) THEN Append(infl, NewSend(buf, "flush")) ELSE infl]

FlushRunNewestOnly(buf, infl, enableRemote, endpoint) ==
  IF enableRemote /\ Len(buf) > 0
    THEN [buffer |-> <<>>,
          inflight |-> IF SendStarts(endpoint, buf)
                         THEN Append(infl, NewSend(LastN(buf, 1), "flush")) ELSE infl]
    ELSE [buffer |-> buf, inflight |-> infl]

FlushRunCopies(buf, infl, enableRemote, endpoint) ==
  IF enableRemote /\ Len(buf) > 0 /\ SendStarts(endpoint, buf)
    THEN [buffer |-> buf, inflight |-> Append(infl, NewSend(buf, "flush"))]
    ELSE [buffer |-> buf, inflight |-> infl]

\* Logger.flush up to its await of sendBatch
FlushRun(buf, infl, enableRemote, endpoint) ==
  IF enableRemote /\ Len(buf) > 0
    THEN [buffer |-> <<>>,
          inflight |-> IF SendStarts(endpoint, buf)
                         THEN Append(infl, NewSend(buf, "flush")) ELSE infl]
    ELSE [buffer |-> buf, inflight |-> infl]

\* log(): the promise of processLogEntry has its rejection caught
LogThrowsUncaught(rejected) == rejected

LogThrows(rejected) == FALSE

\* Logger.log with Logger.processLogEntry up to its first suspension, for the
\* entry e that createLogEntry returned and its serialized form
LogWith(e, serialized, lvl, cThrows, env) ==
  LET b1 == BufferAdd(buffer, bufMax, e)
      conOk == ~(config.enableConsole /\ cThrows)
      doStore == conOk /\ config.enableStorage
      sr == IF doStore THEN StoreRun(persisted, storeMax, serialized, env.outs, env.tail)
            ELSE [persisted |-> persisted, wrote |-> FALSE, cleaned |-> FALSE,
                  overflow |-> FALSE, attempts |-> 0, cleanOk |-> FALSE, kept |-> <<>>]
      storeThrew == sr.overflow /\ env.throws
      doFlush == conOk /\ ~storeThrew /\ config.enableRemote /\ IsFull(b1, bufMax)
      fr == IF doFlush THEN FlushRun(b1, inflight, config.enableRemote, remote.endpoint)
            ELSE [buffer |-> b1, inflight |-> inflight]
      rejected == ~conOk \/ storeThrew
  IN  /\ nextId <= MaxLogs
      /\ nextId' = nextId + 1
      /\ buffer' = fr.buffer
      /\ inflight' = fr.inflight
      /\ persisted' = sr.persisted
      /\ op' = [name |-> "log", lvl |-> lvl, entry |-> e,
                console |-> config.enableConsole /\ ~cThrows,
                rejected |-> rejected, threw |-> LogThrows(rejected)]
      /\ UNCHANGED <<config, bufMax, storeMax, remote, flushTimer, liveTimers,
                 clock, handlers, destroyed, sessionVars, trackerVars>>

\* an entry stands for itself where only its place in the call order matters
LogEntry(lvl, cThrows, env) == LogWith(nextId, nextId, lvl, cThrows, env)

LogFiltered(lvl) ==
  /\ op' = [name |-> "log", lvl |-> lvl, entry |-> 0, console |-> FALSE,
            rejected |-> FALSE, threw |-> LogThrows(FALSE)]
  /\ UNCHANGED <<config, buffer, bufMax, persisted, storeMax, remote, inflight,
                 flushTimer, liveTimers, nextId,
                 clock, handlers, destroyed, sessionVars, trackerVars>>

LogCall(lvl, cThrows, env) ==
  IF ShouldLog(lvl, config.level) THEN LogEntry(lvl, cThrows, env) ELSE LogFiltered(lvl)

Log == \E lvl \in LevelSet : LogCall(lvl, FALSE, NoEnv)

\* the interval callback of initializeAutoFlush: this.flush()
TimerFlush ==
  /\ \E t \in liveTimers :
       LET fr == FlushRun(buffer, inflight, config.enableRemote, remote.endpoint)
       IN  /\ buffer' = fr.buffer
           /\ inflight' = fr.inflight
           /\ op' = [name |-> "timer", started |-> Len(fr.inflight) > Len(inflight),
                     every |-> t.every]
  /\ UNCHANGED <<config, bufMax, persisted, storeMax, remote, flushTimer, liveTimers, nextId,
                 clock, handlers, destroyed, sessionVars, trackerVars>>

\* makeRequest resolves: sendBatch returns, and with it flush
RequestOk(i) ==
  /\ inflight[i].phase = "request"
  /\ inflight' = RemoveAt(inflight, i)
  /\ op' = [name |-> "sent", ok |-> TRUE, index |-> i, batch |-> inflight[i].batch,
            tries |-> Append(inflight[i].tries, "ok"), waits |-> inflight[i].waits,
            caller |-> inflight[i].caller]
  /\ UNCHANGED <<config, buffer, bufMax, persisted, storeMax, remote, flushTimer,
                 liveTimers, nextId,
                 clock, handlers, destroyed, sessionVars, trackerVars>>

FlushCatchDiscard(buf, max, entries) == buf

\* the catch of Logger.flush: the batch of a failed sendBatch is added back
FlushCatch(buf, max, entries) == Requeue(buf, max, entries)

\* makeRequest rejects (non-2xx, server error field, abort on timeout)
RequestFail(i) ==
  LET s == inflight[i]
      tries == Append(s.tries, "fail")
  IN  /\ s.phase = "request"
      /\ IF NeedsDelay(s.attempt, remote.retryAttempts)
           THEN /\ inflight' = [inflight EXCEPT ![i] =
                      [s EXCEPT !.phase = "delay", !.tries = tries,
                                !.waits = Append(@, BackoffDelay(remote.retryDelay, s.attempt))]]
                /\ op' = [name |-> "retry", index |-> i]
                /\ UNCHANGED buffer
         ELSE IF LoopContinues(s.attempt + 1, remote.retryAttempts)
           THEN /\ inflight' = [inflight EXCEPT ![i] =
                      [s EXCEPT !.attempt = @ + 1, !.tries = tries]]
                /\ op' = [name |-> "retry", index |-> i]
                /\ UNCHANGED buffer
         ELSE /\ inflight' = RemoveAt(inflight, i)
              /\ buffer' = IF s.caller = "flush"
                             THEN FlushCatch(buffer, bufMax, s.batch) ELSE buffer
              /\ op' = [name |-> "sent", ok |-> FALSE, index |-> i, batch |-> s.batch,
                        tries |-> tries, waits |-> s.waits, caller |-> s.caller]
      /\ UNCHANGED <<config, bufMax, persisted, storeMax, remote, flushTimer, liveTimers, nextId,
                 clock, handlers, destroyed, sessionVars, trackerVars>>

\* the timer of RemoteAdapter.delay fires: the loop makes its next attempt
DelayElapsed(i) ==
  /\ inflight[i].phase = "delay"
  /\ inflight' = [inflight EXCEPT ![i] =
        [inflight[i] EXCEPT !.attempt = @ + 1, !.phase = "request"]]
  /\ op' = [name |-> "attempt", index |-> i]
  /\ UNCHANGED <<config, buffer, bufMax, persisted, storeMax, remote, flushTimer,
                 liveTimers, nextId,
                 clock, handlers, destroyed, sessionVars, trackerVars>>

SetConfigResizes(p) ==
  LET cfg == Merge(config, p)
      has(k) == k \in DOMAIN p
      cleared == IF has("flushInterval") THEN ClearTimer(flushTimer, liveTimers)
                 ELSE liveTimers
      tm == IF has("flushInterval")
              THEN AutoFlushTimer(cfg.flushInterval, flushTimer, cleared)
              ELSE [flushTimer |-> flushTimer, liveTimers |-> liveTimers]
      size == IF has("bufferSize") THEN ClampSize(p.bufferSize) ELSE bufMax
  IN  /\ config' = cfg
      /\ bufMax' = size
      /\ buffer' = LastN(buffer, size)
      /\ storeMax' = IF has("maxStorageEntries") /\ p.maxStorageEntries # 0
                       THEN p.maxStorageEntries ELSE storeMax
      /\ remote' = IF has("remoteEndpoint") /\ p.remoteEndpoint # ""
                     THEN NewRemoteAdapter(p.remoteEndpoint) ELSE remote
      /\ flushTimer' = tm.flushTimer
      /\ liveTimers' = tm.liveTimers
      /\ op' = [name |-> "setConfig"]
      /\ UNCHANGED <<persisted, inflight, nextId,
                 clock, handlers, destroyed, sessionVars, trackerVars>>

\* Logger.setConfig
SetConfig(p) ==
  LET cfg == Merge(config, p)
      has(k) == k \in DOMAIN p
      cleared == IF has("flushInterval") THEN ClearTimer(flushTimer, liveTimers)
                 ELSE liveTimers
      tm == IF has("flushInterval")
              THEN AutoFlushTimer(cfg.flushInterval, flushTimer, cleared)
              ELSE [flushTimer |-> flushTimer, liveTimers |-> liveTimers]
  IN  /\ config' = cfg
      /\ storeMax' = IF has("maxStorageEntries") /\ p.maxStorageEntries # 0
                       THEN p.maxStorageEntries ELSE storeMax
      /\ remote' = IF has("remoteEndpoint") /\ p.remoteEndpoint # ""
                     THEN NewRemoteAdapter(p.remoteEndpoint) ELSE remote
      /\ flushTimer' = tm.flushTimer
      /\ liveTimers' = tm.liveTimers
      /\ op' = [name |-> "setConfig"]
      /\ UNCHANGED <<buffer, bufMax, persisted, inflight, nextId,
                 clock, handlers, destroyed, sessionVars, trackerVars>>

\* Logger.clearLogs: StorageAdapter.clear and LogBuffer.clear
ClearLogs ==
  /\ persisted' = <<>>
  /\ buffer' = ClearBuffer(buffer)
  /\ op' = [name |-> "clearLogs", stored |-> Len(persisted), buffered |-> Len(buffer)]
  /\ UNCHANGED <<config, bufMax, storeMax, remote, inflight, flushTimer, liveTimers, nextId,
                 clock, handlers, destroyed, sessionVars, trackerVars>>

\* Logger.destroy
Destroy ==
  LET fr == FlushRun(buffer, inflight, config.enableRemote, remote.endpoint)
  IN  /\ liveTimers' = ClearTimer(flushTimer, liveTimers)
      /\ buffer' = fr.buffer
      /\ inflight' = fr.inflight
      /\ destroyed' = TRUE
      /\ op' = [name |-> "destroy", started |-> Len(fr.inflight) > Len(inflight)]
      /\ UNCHANGED <<config, bufMax, persisted, storeMax, remote, flushTimer, nextId,
                     clock, handlers, sessionVars, trackerVars>>

Request == \E i \in 1..Len(inflight) : RequestOk(i) \/ RequestFail(i)

Delay == \E i \in 1..Len(inflight) : DelayElapsed(i)

Configure == \E p \in Partials : SetConfig(p)

Next == Log \/ TimerFlush \/ Request \/ Delay \/ Configure \/ ClearLogs \/ Destroy

Spec == LoggerInit /\ [][Next]_vars

\* ----------------------------------------------------------------------
\* The fan-out of log() to its sinks: every threshold, every combination of
\* the console and storage flags, and sinks that fail.
SinkConfigs ==
  { [level |-> l, enableConsole |-> c, enableStorage |-> st, enableRemote |-> TRUE,
     remoteEndpoint |-> "e1", bufferSize |-> 1, flushInterval |-> 0] :
      l \in LevelSet, c \in BOOLEAN, st \in BOOLEAN }

SinksInit == \E c \in SinkConfigs : LoggerNew(c)

LogSinks ==
  \E lvl \in LevelSet :
    \E cThrows \in (IF config.enableConsole /\ ShouldLog(lvl, config.level)
                       THEN BOOLEAN ELSE {FALSE}) :
      \E env \in (IF config.enableStorage /\ ShouldLog(lvl, config.level) /\ ~cThrows
                     THEN LoggerStoreEnvs ELSE {NoEnv}) :
        LogCall(lvl, cThrows, env)

SinksNext == LogSinks \/ Request \/ Delay

SpecSinks == SinksInit /\ [][SinksNext]_vars

\* ----------------------------------------------------------------------
\* The components on their own.  The variables of the Logger that a component
\* does not own keep the values they have in a Logger built with defaults.
Others(own) ==
  /\ "config" \in own \/ config = DefaultConfig
  /\ "buffer" \in own \/ (buffer = <<>> /\ bufMax = 1)
  /\ "store" \in own \/ (persisted = <<>> /\ storeMax = 0)
  /\ "remote" \in own \/ (remote = NewRemoteAdapter("") /\ inflight = <<>>)
  /\ flushTimer = 0
  /\ liveTimers = {}
  /\ nextId = 1
  /\ clock = 0
  /\ handlers = 0
  /\ destroyed = FALSE
  /\ "session" \in own \/ (session = NoSession /\ sessionId = NoId /\ sessionStartTime = 0
                             /\ minted = 0)
  /\ "tracker" \in own \/ (measurements = EmptyMap /\ pending = <<>>)
  /\ op = [name |-> "new"]

\* ---- StorageAdapter over the localStorage key it shares with every adapter
StoreCapacities == 0..(2 * MaxStore)

StoreInit ==
  /\ persisted = <<>>
  /\ storeMax \in StoreCapacities
  /\ Others({"store"})

\* new StorageAdapter(n) over the entries already persisted, as the
\* constructor and setConfig of the Logger do
NewAdapter(n) ==
  /\ storeMax' = n
  /\ op' = [name |-> "newAdapter"]
  /\ UNCHANGED <<config, buffer, bufMax, persisted, remote, inflight, flushTimer,
                 liveTimers, nextId,
                 clock, handlers, destroyed, sessionVars, trackerVars>>

\* StorageAdapter.store(entry)
StoreCall(env) ==
  LET sr == StoreRun(persisted, storeMax, nextId, env.outs, env.tail)
  IN  /\ nextId <= MaxCalls
      /\ nextId' = nextId + 1
      /\ persisted' = sr.persisted
      /\ op' = [name |-> "store", entry |-> nextId, wrote |-> sr.wrote,
                cleaned |-> sr.cleaned, attempts |-> sr.attempts,
                cleanOk |-> sr.cleanOk, kept |-> sr.kept,
                overflow |-> sr.overflow, threw |-> sr.overflow /\ env.throws]
      /\ UNCHANGED <<config, buffer, bufMax, storeMax, remote, inflight, flushTimer,
                     liveTimers,
                 clock, handlers, destroyed, sessionVars, trackerVars>>

\* StorageAdapter.clear()
StoreClear ==
  /\ persisted' = <<>>
  /\ op' = [name |-> "clear"]
  /\ UNCHANGED <<config, buffer, bufMax, storeMax, remote, inflight, flushTimer,
                 liveTimers, nextId,
                 clock, handlers, destroyed, sessionVars, trackerVars>>

Rebuild == \E n \in StoreCapacities : NewAdapter(n)

Store == \E env \in StoreEnvs : StoreCall(env)

StoreNext == Store \/ Rebuild \/ StoreClear

SpecStore == StoreInit /\ [][StoreNext]_vars

\* ---- LogBuffer
BufferInit ==
  /\ buffer = <<>>
  /\ \E n \in 0..MaxBuf : bufMax = ClampSize(n)
  /\ Others({"buffer"})

\* LogBuffer.add(entry)
BufAdd ==
  /\ nextId <= MaxCalls
  /\ nextId' = nextId + 1
  /\ buffer' = BufferAdd(buffer, bufMax, nextId)
  /\ op' = [name |-> "add", entry |-> nextId]
  /\ UNCHANGED <<config, bufMax, persisted, storeMax, remote, inflight, flushTimer,
                 liveTimers,
                 clock, handlers, destroyed, sessionVars, trackerVars>>

\* LogBuffer.flush(): returns a copy of the entries and empties the buffer
BufFlush ==
  /\ buffer' = <<>>
  /\ op' = [name |-> "flush", returned |-> buffer]
  /\ UNCHANGED <<config, bufMax, persisted, storeMax, remote, inflight, flushTimer,
                 liveTimers, nextId,
                 clock, handlers, destroyed, sessionVars, trackerVars>>

\* LogBuffer.clear()
BufClear ==
  /\ buffer' = ClearBuffer(buffer)
  /\ op' = [name |-> "clear"]
  /\ UNCHANGED <<config, bufMax, persisted, storeMax, remote, inflight, flushTimer,
                 liveTimers, nextId,
                 clock, handlers, destroyed, sessionVars, trackerVars>>

\* LogBuffer.removeOldest(): shift() || null
BufRemoveOldest ==
  /\ buffer' = IF buffer = <<>> THEN buffer ELSE Tail(buffer)
  /\ op' = [name |-> "removeOldest", returned |-> IF buffer = <<>> THEN 0 ELSE Head(buffer)]
  /\ UNCHANGED <<config, bufMax, persisted, storeMax, remote, inflight, flushTimer,
                 liveTimers, nextId,
                 clock, handlers, destroyed, sessionVars, trackerVars>>

\* LogBuffer.setMaxSize(n)
BufSetMaxSize(n) ==
  /\ bufMax' = ClampSize(n)
  /\ buffer' = TrimFront(buffer, ClampSize(n))
  /\ op' = [name |-> "setMaxSize", n |-> n,
            dropped |-> Len(buffer) - Len(TrimFront(buffer, ClampSize(n)))]
  /\ UNCHANGED <<config, persisted, storeMax, remote, inflight, flushTimer,
                 liveTimers, nextId,
                 clock, handlers, destroyed, sessionVars, trackerVars>>

BufResize == \E n \in 0..MaxBuf : BufSetMaxSize(n)

BufferNext == BufAdd \/ BufFlush \/ BufClear \/ BufRemoveOldest \/ BufResize

SpecBuffer == BufferInit /\ [][BufferNext]_vars

\* ---- RemoteAdapter
SendInit ==
  /\ \E ep \in {"", "e1"} : remote = NewRemoteAdapter(ep)
  /\ inflight = <<>>
  /\ Others({"remote"})

\* RemoteAdapter.setRetryConfig(attempts, delay), between two sendBatch calls
SetRetryConfig(attempts, delay) ==
  /\ inflight = <<>>
  /\ remote' = [remote EXCEPT !.retryAttempts = IF attempts > 1 THEN attempts ELSE 1,
                              !.retryDelay = IF delay > 100 THEN delay ELSE 100]
  /\ op' = [name |-> "setRetryConfig"]
  /\ UNCHANGED <<config, buffer, bufMax, persisted, storeMax, inflight, flushTimer,
                 liveTimers, nextId,
                 clock, handlers, destroyed, sessionVars, trackerVars>>

\* RemoteAdapter.sendBatch(entries) called directly, up to its first request
SendBatch(entries) ==
  /\ inflight = <<>>
  /\ IF SendStarts(remote.endpoint, entries)
       THEN /\ inflight' = <<NewSend(entries, "direct")>>
            /\ op' = [name |-> "sendBatch"]
       ELSE /\ inflight' = inflight
            /\ op' = [name |-> "sent", ok |-> TRUE, index |-> 0, batch |-> entries,
                      tries |-> <<>>, waits |-> <<>>, caller |-> "direct"]
  /\ UNCHANGED <<config, buffer, bufMax, persisted, storeMax, remote, flushTimer,
                 liveTimers, nextId,
                 clock, handlers, destroyed, sessionVars, trackerVars>>

Retune == \E a \in 0..MaxAttempts, d \in {50, 100, 250} : SetRetryConfig(a, d)

Send == \E entries \in {<<>>, <<1>>, <<1, 2>>} : SendBatch(entries)

SendNext == Retune \/ Send \/ Request \/ Delay

SpecSend == SendInit /\ [][SendNext]_vars

\* ----------------------------------------------------------------------
\* The Logger with the entries that createLogEntry builds: an id, a level,
\* the timestamp new Date() and, for the two highest levels, a stack.
MaxClock == 1         \* milliseconds that pass while the Logger is observed

CreateLogEntryNoStack(lvl, id, now, sid) ==
  [id |-> id, level |-> lvl, timestamp |-> now, sessionId |-> sid]

CreateLogEntry(lvl, id, now, sid) ==
  IF lvl = "ERROR" \/ lvl = "FATAL"
    THEN [id |-> id, level |-> lvl, timestamp |-> now, sessionId |-> sid,
          stack |-> "Error at"]
    ELSE [id |-> id, level |-> lvl, timestamp |-> now, sessionId |-> sid]

\* {...log, timestamp: log.timestamp.toISOString()} and its inverse in retrieve
SerializeEntry(e) == [e EXCEPT !.timestamp = <<"iso", @>>]

ParseEntry(j) == [j EXCEPT !.timestamp = @[2]]

\* StorageAdapter.retrieve
Retrieve(stored) == [i \in 1..Len(stored) |-> ParseEntry(stored[i])]

\* logs.sort((a, b) => b.timestamp.getTime() - a.timestamp.getTime()): a
\* stable sort, entries with equal timestamps keep their order
RECURSIVE InsertByTime(_, _)
InsertByTime(sorted, e) ==
  IF sorted = <<>> THEN <<e>>
  ELSE IF Head(sorted).timestamp >= e.timestamp
    THEN <<Head(sorted)>> \o InsertByTime(Tail(sorted), e)
  ELSE <<e>> \o sorted

RECURSIVE SortNewestFirst(_)
SortNewestFirst(logs) ==
  IF logs = <<>> THEN <<>>
  ELSE InsertByTime(SortNewestFirst(SubSeq(logs, 1, Len(logs) - 1)), logs[Len(logs)])

\* Logger.getLogs without a filter
GetLogs(stored) == SortNewestFirst(Retrieve(stored))

\* Logger.log of a level, with healthy sinks
LogCreated(lvl) ==
  IF ShouldLog(lvl, config.level)
    THEN LogWith(CreateLogEntry(lvl, nextId, clock, config.sessionId),
                 SerializeEntry(CreateLogEntry(lvl, nextId, clock, config.sessionId)),
                 lvl, FALSE, NoEnv)
    ELSE LogFiltered(lvl)

\* a call of Logger.getLogs()
GetLogsCall ==
  /\ op' = [name |-> "getLogs", result |-> GetLogs(persisted)]
  /\ UNCHANGED <<config, buffer, bufMax, persisted, storeMax, remote, inflight,
                 flushTimer, liveTimers, nextId, clock, handlers, destroyed, sessionVars, trackerVars>>

\* a millisecond passes
Tick ==
  /\ clock < MaxClock
  /\ clock' = clock + 1
  /\ op' = [name |-> "tick"]
  /\ UNCHANGED <<config, buffer, bufMax, persisted, storeMax, remote, inflight,
                 flushTimer, liveTimers, nextId, handlers, destroyed, sessionVars, trackerVars>>

\* ---- every level through every sink, within one millisecond
EntryConfigs ==
  { [enableRemote |-> TRUE, remoteEndpoint |-> "e1", bufferSize |-> b,
     flushInterval |-> 0] : b \in 1..MaxBuf }

EntriesInit == \E c \in EntryConfigs : LoggerNew(c)

LogRecord == \E lvl \in LevelSet : LogCreated(lvl)

EntryPartials == { [enableRemote |-> x] : x \in BOOLEAN }

Toggle == \E p \in EntryPartials : SetConfig(p)

EntriesNext == LogRecord \/ GetLogsCall \/ ClearLogs \/ Toggle \/ Request \/ Delay

SpecEntries == EntriesInit /\ [][EntriesNext]_vars

\* ---- the durable history over time, with remote delivery off
HistoryConfigs == { [maxStorageEntries |-> n] : n \in 1..MaxStore }

HistoryPartials == { [maxStorageEntries |-> n] : n \in 0..MaxStore }

HistoryInit == \E c \in HistoryConfigs : LoggerNew(c)

LogTimed == \E lvl \in {"INFO", "ERROR"} : LogCreated(lvl)

Resize == \E p \in HistoryPartials : SetConfig(p)

HistoryNext == LogTimed \/ Tick \/ GetLogsCall \/ Resize

SpecHistory == HistoryInit /\ [][HistoryNext]_vars

\* ----------------------------------------------------------------------
\* The life of Loggers in one window: each constructor registers an error and
\* an unhandledrejection handler on window, and a component that mounts again
\* builds a new Logger after the previous one was destroyed.  The variables
\* are those of the newest Logger; the durable store is shared.
MaxLoggers == 3       \* Loggers built in one window

\* new Logger(c) after the previous Logger was destroyed
Construct(c) ==
  LET sm == NewSessionManager(session, clock, minted)
      cfg == [Merge(DefaultConfig, c) EXCEPT !.sessionId = sm.sessionId]
      tm == AutoFlushTimer(cfg.flushInterval, 0, liveTimers)
  IN  /\ destroyed
      /\ handlers < MaxLoggers
      /\ session' = sm.session
      /\ sessionId' = sm.sessionId
      /\ sessionStartTime' = clock
      /\ minted' = sm.minted
      /\ config' = cfg
      /\ buffer' = <<>>
      /\ bufMax' = ClampSize(cfg.bufferSize)
      /\ storeMax' = cfg.maxStorageEntries
      /\ remote' = NewRemoteAdapter(cfg.remoteEndpoint)
      /\ inflight' = <<>>
      /\ flushTimer' = tm.flushTimer
      /\ liveTimers' = tm.liveTimers
      /\ handlers' = handlers + 1
      /\ destroyed' = FALSE
      /\ op' = [name |-> "new", given |-> Given(c)]
      /\ UNCHANGED <<persisted, nextId, clock, trackerVars>>

\* window dispatches an error or unhandledrejection event: the handler that
\* the Logger registered calls this.error(...)
WindowEvent ==
  /\ handlers > 0
  /\ LogCall("ERROR", FALSE, NoEnv)

Mount == \E c \in ConstructorConfigs : Construct(c)

\* the only log() calls here are those of the window handlers
LifeNext == WindowEvent \/ TimerFlush \/ ClearLogs \/ Destroy \/ Mount

SpecLife == LoggerInit /\ [][LifeNext]_vars

\* ----------------------------------------------------------------------
\* The flush schedule of a Logger under setConfig({flushInterval})
Intervals == {0, 1000, 5000}

Retime == \E ms \in Intervals : SetConfig([flushInterval |-> ms])

TimerNext == Log \/ TimerFlush \/ Retime \/ ClearLogs \/ Destroy

SpecTimer == LoggerInit /\ [][TimerNext]_vars

\* ----------------------------------------------------------------------
\* The Logger under every combination of its three sink flags
FlagConfigs ==
  { [enableConsole |-> c, enableStorage |-> st, enableRemote |-> r,
     remoteEndpoint |-> "e1", bufferSize |-> b] :
      c \in BOOLEAN, st \in BOOLEAN, r \in BOOLEAN, b \in 1..MaxBuf }

FlagsInit == \E c \in FlagConfigs : LoggerNew(c)

FlagPartials == { [enableRemote |-> x] : x \in BOOLEAN }

Reflag == \E p \in FlagPartials : SetConfig(p)

FlagsNext == Log \/ TimerFlush \/ Request \/ Delay \/ Reflag \/ Destroy

SpecFlags == FlagsInit /\ [][FlagsNext]_vars

\* ----------------------------------------------------------------------
\* SessionManager on its own: the managers that the pages of one tab build
\* over the days, the record in sessionStorage, renewSession and clearSession.
MaxMoment == 9        \* moments of the clock that pass
MaxSessions == 3      \* session ids generated

SessionInit == Others({"session"}) /\ session = NoSession /\ sessionId = NoId
                 /\ sessionStartTime = 0 /\ minted = 0

\* new SessionManager()
Manager ==
  LET sm == NewSessionManager(session, clock, minted)
  IN  /\ sm.minted <= MaxSessions
      /\ session' = sm.session
      /\ sessionId' = sm.sessionId
      /\ sessionStartTime' = clock
      /\ minted' = sm.minted
      /\ op' = [name |-> "newManager", before |-> session]
      /\ UNCHANGED <<config, buffer, bufMax, persisted, storeMax, remote, inflight,
                     flushTimer, liveTimers, nextId, clock, handlers, destroyed, trackerVars>>

\* SessionManager.renewSession: the record is written before the start time
\* is renewed
RenewSession ==
  LET cs == CreateNewSession(sessionStartTime, minted)
  IN  /\ sessionId # NoId
      /\ cs.minted <= MaxSessions
      /\ session' = cs.session
      /\ sessionId' = cs.sessionId
      /\ sessionStartTime' = clock
      /\ minted' = cs.minted
      /\ op' = [name |-> "renewSession"]
      /\ UNCHANGED <<config, buffer, bufMax, persisted, storeMax, remote, inflight,
                     flushTimer, liveTimers, nextId, clock, handlers, destroyed, trackerVars>>

\* SessionManager.clearSession
ClearSession ==
  /\ sessionId # NoId
  /\ session' = NoSession
  /\ op' = [name |-> "clearSession"]
  /\ UNCHANGED <<config, buffer, bufMax, persisted, storeMax, remote, inflight,
                 flushTimer, liveTimers, nextId, clock, handlers, destroyed,
                 sessionId, sessionStartTime, minted, trackerVars>>

\* half a day passes
Pass ==
  /\ clock < MaxMoment
  /\ clock' = clock + 1
  /\ op' = [name |-> "pass"]
  /\ UNCHANGED <<config, buffer, bufMax, persisted, storeMax, remote, inflight,
                 flushTimer, liveTimers, nextId, handlers, destroyed, sessionVars, trackerVars>>

SessionNext == Manager \/ RenewSession \/ ClearSession \/ Pass

SpecSession == SessionInit /\ [][SessionNext]_vars

\* ----------------------------------------------------------------------
\* The Logger and the session id of its configuration: Loggers built with
\* and without config.sessionId, getConfig, setConfig({sessionId}) and a
\* Logger built again in the same tab.
IdentityConfigs == { [sessionId |-> s] : s \in {NoId, GivenId(1), GivenId(2)} }

IdentityInit == \E c \in IdentityConfigs : LoggerNew(c)

\* Logger.getConfig
GetConfig ==
  /\ op' = [name |-> "getConfig", result |-> config]
  /\ UNCHANGED <<config, buffer, bufMax, persisted, storeMax, remote, inflight,
                 flushTimer, liveTimers, nextId, clock, handlers, destroyed, sessionVars, trackerVars>>

Rename == \E c \in IdentityConfigs : SetConfig(c)

Remount == \E c \in IdentityConfigs : Construct(c)

IdentityNext == LogTimed \/ GetConfig \/ Rename \/ Destroy \/ Remount

SpecIdentity == IdentityInit /\ [][IdentityNext]_vars

\* ----------------------------------------------------------------------
\* PerformanceTracker on its own: start, end and measure over two labels,
\* with operations that return, throw, or return a promise that settles
\* later.  performance.now() is the clock, which starts at 0.
Labels == {"a", "b"}

MaxPending == 2       \* promises of measure() that have not settled

TrackerInit == Others({"tracker"}) /\ measurements = EmptyMap /\ pending = <<>>

Start ==
  \E label \in Labels :
    /\ measurements' = StartRun(measurements, label, clock).measurements
    /\ op' = [name |-> "start", label |-> label,
              logged |-> StartRun(measurements, label, clock).logged]
    /\ UNCHANGED <<config, buffer, bufMax, persisted, storeMax, remote, inflight,
                   flushTimer, liveTimers, nextId, clock, handlers, destroyed, sessionVars,
                   pending>>

End ==
  \E label \in Labels :
    /\ measurements' = EndRun(measurements, label, clock).measurements
    /\ op' = [name |-> "end", label |-> label,
              result |-> EndRun(measurements, label, clock).result,
              logged |-> EndRun(measurements, label, clock).logged, threw |-> FALSE]
    /\ UNCHANGED <<config, buffer, bufMax, persisted, storeMax, remote, inflight,
                   flushTimer, liveTimers, nextId, clock, handlers, destroyed, sessionVars,
                   pending>>

\* measure(label, fn) up to its return: fn runs for dt and returns a value,
\* throws, or returns a promise
Measure ==
  \E label \in Labels, outcome \in {"returns", "throws", "promise"}, dt \in 0..MaxClock :
    LET st == StartRun(measurements, label, clock)
        done == IF outcome = "throws"
                  THEN MeasureCatch(st.measurements, label, clock + dt, FnError)
                  ELSE MeasureReturn(st.measurements, label, clock + dt)
    IN  /\ clock + dt <= MaxClock
        /\ clock' = clock + dt
        /\ IF outcome = "promise"
             THEN /\ Len(pending) < MaxPending
                  /\ measurements' = st.measurements
                  /\ pending' = Append(pending, [label |-> label, calls |-> <<"start">>])
                  /\ op' = [name |-> "measure", label |-> label, outcome |-> "pending",
                            calls |-> <<"start">>, logged |-> st.logged,
                            raised |-> NoError, thrown |-> NoError]
             ELSE /\ measurements' = done.measurements
                  /\ pending' = pending
                  /\ op' = [name |-> "measure", label |-> label, outcome |-> outcome,
                            calls |-> <<"start">> \o done.calls,
                            logged |-> st.logged \o done.logged,
                            raised |-> IF outcome = "throws" THEN FnError ELSE NoError,
                            thrown |-> done.thrown]
        /\ UNCHANGED <<config, buffer, bufMax, persisted, storeMax, remote, inflight,
                       flushTimer, liveTimers, nextId, handlers, destroyed, sessionVars>>

\* a promise that fn returned settles: the then or the catch callback of measure
Settle ==
  \E i \in 1..Len(pending), outcome \in {"resolves", "rejects"} :
    LET done == IF outcome = "rejects"
                  THEN MeasureCatch(measurements, pending[i].label, clock, FnError)
                  ELSE MeasureReturn(measurements, pending[i].label, clock)
    IN  /\ measurements' = done.measurements
        /\ pending' = RemoveAt(pending, i)
        /\ op' = [name |-> "settled", label |-> pending[i].label, outcome |-> outcome,
                  calls |-> pending[i].calls \o done.calls, logged |-> done.logged,
                  raised |-> IF outcome = "rejects" THEN FnError ELSE NoError,
                  thrown |-> done.thrown]
        /\ UNCHANGED <<config, buffer, bufMax, persisted, storeMax, remote, inflight,
                       flushTimer, liveTimers, nextId, clock, handlers, destroyed, sessionVars>>

TrackerNext == Start \/ End \/ Measure \/ Settle \/ Tick

SpecTracker == TrackerInit /\ [][TrackerNext]_vars

\* ----------------------------------------------------------------------
\* LogFormatter: one row of the CSV export, and a reader of CSV text
\* (RFC 4180: a quoted field ends at a quote that no quote follows).
MaxField == 2         \* characters of one field value

Alphabet == {"a", ",", "\"", "\n"}

RECURSIVE Texts(_)
Texts(n) ==
  IF n = 0 THEN {<<>>}
  ELSE Texts(n - 1) \cup {Append(t, ch) : t \in {x \in Texts(n - 1) : Len(x) = n - 1},
                                         ch \in Alphabet}

\* value.includes(ch)
Includes(value, ch) == \E i \in 1..Len(value) : value[i] = ch

\* value.replace(/"/g, '""')
RECURSIVE DoubleQuotes(_)
DoubleQuotes(value) ==
  IF value = <<>> THEN <<>>
  ELSE (IF Head(value) = "\"" THEN <<"\"", "\"">> ELSE <<Head(value)>>)
         \o DoubleQuotes(Tail(value))

EscapeCsvValueNoDoubling(value) ==
  IF Includes(value, ",") \/ Includes(value, "\"") \/ Includes(value, "\n")
    THEN <<"\"">> \o value \o <<"\"">>
    ELSE value

\* LogFormatter.escapeCsvValue
EscapeCsvValue(value) ==
  IF Includes(value, ",") \/ Includes(value, "\"") \/ Includes(value, "\n")
    THEN <<"\"">> \o DoubleQuotes(value) \o <<"\"">>
    ELSE value

\* row.join(',') of the escaped values
RECURSIVE JoinRow(_)
JoinRow(row) ==
  IF row = <<>> THEN <<>>
  ELSE IF Len(row) = 1 THEN EscapeCsvValue(row[1])
  ELSE EscapeCsvValue(row[1]) \o <<",">> \o JoinRow(Tail(row))

\* a CSV reader: the records of a text, each a sequence of field values
RECURSIVE CsvRead(_, _, _, _, _, _)
CsvRead(text, i, st, cur, rec, recs) ==
  IF i > Len(text) THEN Append(recs, Append(rec, cur))
  ELSE LET ch == text[i]
       IN  IF st = "quoted"
             THEN IF ch = "\"" THEN CsvRead(text, i + 1, "closed", cur, rec, recs)
                  ELSE CsvRead(text, i + 1, "quoted", Append(cur, ch), rec, recs)
           ELSE IF ch = "\"" /\ st = "closed"
             THEN CsvRead(text, i + 1, "quoted", Append(cur, ch), rec, recs)
           ELSE IF ch = "\"" /\ cur = <<>>
             THEN CsvRead(text, i + 1, "quoted", cur, rec, recs)
           ELSE IF ch = ","
             THEN CsvRead(text, i + 1, "field", <<>>, Append(rec, cur), recs)
           ELSE IF ch = "\n"
             THEN CsvRead(text, i + 1, "field", <<>>, <<>>, Append(recs, Append(rec, cur)))
           ELSE CsvRead(text, i + 1, "field", Append(cur, ch), rec, recs)

ParseCsv(text) == CsvRead(text, 1, "field", <<>>, <<>>, <<>>)

CsvInit == Others({})

\* formatCSV builds the row of an entry with two text fields
ExportRow ==
  /\ op.name = "new"
  /\ \E message \in Texts(MaxField), component \in Texts(MaxField) :
       op' = [name |-> "row", row |-> <<message, component>>,
              text |-> JoinRow(<<message, component>>)]
  /\ UNCHANGED <<config, buffer, bufMax, persisted, storeMax, remote, inflight,
                 flushTimer, liveTimers, nextId, clock, handlers, destroyed, sessionVars, trackerVars>>

\* a reader parses the exported row
ReadRow ==
  /\ op.name = "row"
  /\ op' = [name |-> "read", row |-> op.row, text |-> op.text, records |-> ParseCsv(op.text)]
  /\ UNCHANGED <<config, buffer, bufMax, persisted, storeMax, remote, inflight,
                 flushTimer, liveTimers, nextId, clock, handlers, destroyed, sessionVars, trackerVars>>

CsvNext == ExportRow \/ ReadRow

SpecCsv == CsvInit /\ [][CsvNext]_vars

\* ----------------------------------------------------------------------
\* Delivery over time: a Logger with remote delivery on, an endpoint and a
\* flush interval.  The interval keeps firing, every request and every
\* backoff delay ends, and from some time on no request fails.
DeliverConfigs ==
  { [enableRemote |-> TRUE, remoteEndpoint |-> "e1", bufferSize |-> b,
     flushInterval |-> 5000] : b \in 1..MaxBuf }

DeliverInit == \E c \in DeliverConfigs : LoggerNew(c)

RequestFails == \E i \in 1..Len(inflight) : RequestFail(i)

DeliverNext == Log \/ TimerFlush \/ Request \/ Delay

SpecDeliver ==
  /\ DeliverInit /\ [][DeliverNext]_vars
  /\ WF_vars(TimerFlush) /\ WF_vars(Request) /\ WF_vars(Delay)
  /\ <>[][~RequestFails]_vars

\* ----------------------------------------------------------------------
\* The ring buffer beside the durable store: capacities of both chosen
\* independently, a localStorage that may reject writes, timer and
\* buffer-full flushes whose requests may fail.
DecoupledConfigs ==
  { [enableRemote |-> TRUE, remoteEndpoint |-> "e1", bufferSize |-> b,
     maxStorageEntries |-> n, flushInterval |-> 5000] :
      b \in 1..MaxBuf, n \in 1..MaxStore }

DecoupledInit == \E c \in DecoupledConfigs : LoggerNew(c)

LogStored == \E env \in LoggerStoreEnvs : LogCall("INFO", FALSE, env)

DecoupledNext == LogStored \/ TimerFlush \/ Request \/ Delay

SpecDecoupled == DecoupledInit /\ [][DecoupledNext]_vars

\* ----------------------------------------------------------------------
\* The ring buffer of a Logger whose bufferSize is reconfigured: remote
\* delivery on, setConfig({bufferSize: n}) between the log() calls.
CapacityConfigs ==
  { [enableRemote |-> TRUE, remoteEndpoint |-> "e1", bufferSize |-> b,
     flushInterval |-> 0] : b \in 1..MaxBuf }

CapacityInit == \E c \in CapacityConfigs : LoggerNew(c)

BufferSizes == 0..(MaxBuf + 1)

Rebuffer == \E n \in BufferSizes : SetConfig([bufferSize |-> n])

CapacityNext == Log \/ Rebuffer \/ GetConfig \/ Request \/ Delay

SpecCapacity == CapacityInit /\ [][CapacityNext]_vars

\* ----------------------------------------------------------------------
\* Remote delivery switched on late: a Logger built with an endpoint and
\* remote delivery off, which setConfig({enableRemote: true}) turns on once.
LateConfigs ==
  { [remoteEndpoint |-> "e1", bufferSize |-> b] : b \in 1..MaxBuf }

LateInit == \E c \in LateConfigs : LoggerNew(c)

Enable == ~config.enableRemote /\ SetConfig([enableRemote |-> TRUE])

LateNext == Log \/ Enable \/ TimerFlush \/ Request \/ Delay

SpecLate == LateInit /\ [][LateNext]_vars

\* ----------------------------------------------------------------------
\* Claims about the Logger

\* C1: at most one sendBatch call of a Logger is in flight at any time, over
\* every interleaving of timer flushes, buffer-full flushes and destroy().
AtMostOneInFlight == Len(inflight) <= 1

\* C2: once flush() completes after a failed sendBatch, every entry of the
\* drained batch is in the ring buffer exactly once, however many log() calls
\* happened while the transmission was in flight.
FailedFlush == op.name = "sent" /\ ~op.ok /\ op.caller = "flush"

RequeuedWhole ==
  FailedFlush => \A e \in Range(op.batch) : Count(buffer, e) = 1

\* a failed flush whose requeued batch shares the buffer with entries that
\* were logged while it was in flight
RequeuedAmongNewer ==
  /\ FailedFlush
  /\ \E e \in Range(buffer) : e \notin Range(op.batch)
  /\ \A e \in Range(op.batch) : e \in Range(buffer)

\* C5: a log() call with a level strictly below the threshold in the order
\* DEBUG < INFO < WARN < ERROR < FATAL writes no sink (console, durable store,
\* ring buffer, transport); a call at or above the threshold produces an entry.
LevelOrder == <<"DEBUG", "INFO", "WARN", "ERROR", "FATAL">>

Rank(l) == CHOOSE i \in 1..Len(LevelOrder) : LevelOrder[i] = l

FilterBelowThreshold ==
  [][ op'.name = "log" =>
        IF Rank(op'.lvl) < Rank(config.level)
          THEN /\ op'.entry = 0
               /\ ~op'.console
               /\ UNCHANGED <<buffer, persisted, inflight, nextId>>
          ELSE /\ op'.entry = nextId
               /\ nextId' = nextId + 1 ]_vars

\* a call below the threshold while the console and the store are enabled
FilteredCall ==
  /\ op.name = "log"
  /\ Rank(op.lvl) < Rank(config.level)
  /\ config.enableConsole /\ config.enableStorage

EntriesInCallOrder == IsOrdered(persisted) /\ IsOrdered(buffer)

\* C8: a batch is never delivered while a batch drained earlier is still
\* being attempted.
DeliveredInFlushOrder == (op.name = "sent" /\ op.ok) => op.index = 1

\* ----------------------------------------------------------------------
\* Claims about the components

IsSuffix(t, u) == Len(t) <= Len(u) /\ t = LastN(u, Len(t))

Least(a, b) == IF a < b THEN a ELSE b

\* C3: after any store() call the number of persisted entries is at most
\* maxEntries.
StoreWithinCapacity == op.name = "store" => Len(persisted) <= storeMax

\* C3, amended: after a store() call whose write succeeds the persisted
\* entries are at most maxEntries, they are the newest ones (the new entry
\* preceded by the most recent earlier entries), and without quota recovery
\* exactly the newest min(n + 1, maxEntries); a store() whose write fails with
\* a non-quota error leaves the persisted entries as they were.
StoreTrimsOnWrite ==
  [][ op'.name = "store" =>
        /\ op'.wrote =>
             /\ Len(persisted') <= storeMax
             /\ IsSuffix(persisted', Append(persisted, op'.entry))
             /\ storeMax > 0 => persisted'[Len(persisted')] = op'.entry
             /\ ~op'.cleaned => Len(persisted') = Least(Len(persisted) + 1, storeMax)
        /\ (~op'.wrote /\ ~op'.cleaned) => persisted' = persisted ]_vars

\* a successful store into a full store: the oldest entry has been discarded
StoreEvictedOldest ==
  /\ op.name = "store" /\ op.wrote /\ ~op.cleaned
  /\ storeMax > 1
  /\ Len(persisted) = storeMax
  /\ persisted[1] > 1
  /\ persisted[Len(persisted)] = op.entry

\* C4: the size of a LogBuffer never exceeds its capacity, add on a full
\* buffer drops exactly the oldest entry, and setMaxSize(n) with n below the
\* current size keeps exactly the newest n entries.
BufferKeepsNewestN ==
  [][ /\ Len(buffer') <= bufMax'
      /\ op'.name = "add" =>
           buffer' = Append(IF Len(buffer) >= bufMax THEN Tail(buffer) ELSE buffer,
                            op'.entry)
      /\ (op'.name = "setMaxSize" /\ op'.n < Len(buffer)) =>
           buffer' = LastN(buffer, op'.n) ]_vars

\* C4, amended: as C4, but setMaxSize(n) with n below the current size keeps
\* exactly the newest max(1, n) entries.
BufferKeepsNewestClamped ==
  [][ /\ Len(buffer') <= bufMax'
      /\ op'.name = "add" =>
           buffer' = Append(IF Len(buffer) >= bufMax THEN Tail(buffer) ELSE buffer,
                            op'.entry)
      /\ (op'.name = "setMaxSize" /\ op'.n < Len(buffer)) =>
           buffer' = LastN(buffer, IF op'.n < 1 THEN 1 ELSE op'.n) ]_vars

\* setMaxSize(0) has shrunk a buffer that held several entries to its newest
BufferShrunkToOne ==
  /\ op.name = "setMaxSize" /\ op.n = 0
  /\ op.dropped > 0
  /\ Len(buffer) = 1

\* C9: sendBatch makes at most retryAttempts requests, stops at the first
\* success, and fails after exactly retryAttempts failed requests without
\* retrying or requeueing further.
DoneSend == op.name = "sent" /\ op.tries # <<>>

BoundedRetries ==
  /\ \A i \in 1..Len(inflight) :
       /\ inflight[i].attempt <= remote.retryAttempts
       /\ Len(inflight[i].tries) < remote.retryAttempts
       /\ \A k \in 1..Len(inflight[i].tries) : inflight[i].tries[k] = "fail"
  /\ DoneSend =>
       /\ Len(op.tries) <= remote.retryAttempts
       /\ \A k \in 1..(Len(op.tries) - 1) : op.tries[k] = "fail"
       /\ op.ok <=> op.tries[Len(op.tries)] = "ok"
       /\ ~op.ok => Len(op.tries) = remote.retryAttempts
       /\ \A i \in 1..Len(inflight) : inflight[i].batch # op.batch
       /\ op.caller = "direct" => buffer = <<>>

\* a sendBatch call that failed after several requests
SendExhausted ==
  /\ DoneSend /\ ~op.ok
  /\ remote.retryAttempts > 1
  /\ Len(op.tries) = remote.retryAttempts

\* C10: between failed attempt k and attempt k + 1 sendBatch waits
\* k * retryDelay, the waits are strictly increasing, and no wait follows the
\* last attempt.
Backoff(waits) ==
  /\ \A k \in 1..Len(waits) : waits[k] = k * remote.retryDelay
  /\ \A j, k \in 1..Len(waits) : j < k => waits[j] < waits[k]

LinearBackoff ==
  /\ \A i \in 1..Len(inflight) :
       /\ Backoff(inflight[i].waits)
       /\ Len(inflight[i].waits) = Len(inflight[i].tries)
  /\ DoneSend =>
       /\ Backoff(op.waits)
       /\ Len(op.waits) = Len(op.tries) - 1

\* 3 attempts against a transport that fails twice, then succeeds
ThirdAttemptSucceeds ==
  /\ DoneSend /\ op.ok
  /\ remote.retryAttempts = 3
  /\ op.tries = <<"fail", "fail", "ok">>
  /\ op.waits = <<remote.retryDelay, 2 * remote.retryDelay>>

\* C11: a store() call makes at most two write attempts for its entry and
\* returns, however long the storage keeps rejecting writes with a quota
\* error.
StoreRetriesOnce == op.name = "store" => (op.attempts <= 2 /\ ~op.overflow)

\* C12: the quota recovery step of store() leaves persisted the newest half
\* of the n entries persisted before it, whatever the capacity.
RecoveryHalves ==
  [][ (op'.name = "store" /\ op'.cleaned /\ op'.cleanOk) =>
        /\ IsSuffix(op'.kept, persisted)
        /\ Len(persisted) \div 2 <= Len(op'.kept)
        /\ Len(op'.kept) <= (Len(persisted) + 1) \div 2 ]_vars

\* C13: a store() call returns normally, whatever write failures it meets:
\* no failure of the durable store is thrown to the caller.
StoreReturnsNormally == op.name = "store" => ~op.threw

\* ----------------------------------------------------------------------
\* Claims about the entries and the durable history

HasStack(e) == "stack" \in DOMAIN e /\ e.stack # ""

StackRule(e) == HasStack(e) <=> e.level \in {"ERROR", "FATAL"}

\* C14: every entry the Logger created carries a non-empty stack if and only
\* if its level is ERROR or FATAL, in every sink: the console, the ring
\* buffer, the durable store and the batches given to the remote adapter.
StackIffError ==
  /\ (op.name = "log" /\ op.console) => StackRule(op.entry)
  /\ \A i \in 1..Len(buffer) : StackRule(buffer[i])
  /\ \A i \in 1..Len(persisted) : StackRule(Retrieve(persisted)[i])
  /\ \A i \in 1..Len(inflight) :
       \A k \in 1..Len(inflight[i].batch) : StackRule(inflight[i].batch[k])

\* an ERROR entry with its stack is in a batch being sent while the durable
\* store also holds an entry of a lower level
StackInEverySink ==
  /\ \E i \in 1..Len(inflight) : \E k \in 1..Len(inflight[i].batch) :
       inflight[i].batch[k].level = "ERROR" /\ HasStack(inflight[i].batch[k])
  /\ \E i \in 1..Len(persisted) :
       Retrieve(persisted)[i].level = "WARN" /\ ~HasStack(Retrieve(persisted)[i])

Reverse(q) == [i \in 1..Len(q) |-> q[Len(q) + 1 - i]]

\* C15: getLogs() without a filter returns the durable entries in the reverse
\* of log() call order, whatever timestamps the clock gave them.
GetLogsNewestFirst ==
  op.name = "getLogs" => op.result = Reverse(Retrieve(persisted))

\* C16: in the state right after clearLogs() returns, getLogs() is empty and
\* the ring buffer holds nothing.
ClearLogsEmpties ==
  op.name = "clearLogs" => (GetLogs(persisted) = <<>> /\ Len(buffer) = 0)

\* clearLogs() was called with entries both persisted and buffered
ClearedBoth == op.name = "clearLogs" /\ op.stored > 0 /\ op.buffered > 0

\* C20: getConfig().maxStorageEntries always equals the bound that the
\* durable store enforces.
ConfigMatchesStore == config.maxStorageEntries = storeMax

\* ----------------------------------------------------------------------
\* Claims about flush triggers and the end of a Logger

\* C17: with remote delivery enabled, whenever the entry added by log()
\* brings the ring buffer to its capacity, the buffer has been drained into a
\* batch handed to sendBatch when log() returns.
FlushWhenFull ==
  [][ ( /\ op'.name = "log" /\ op'.entry # 0
        /\ config.enableRemote
        /\ IsFull(BufferAdd(buffer, bufMax, op'.entry), bufMax) ) =>
      ( /\ buffer' = <<>>
        /\ remote.endpoint # "" =>
             /\ Len(inflight') = Len(inflight) + 1
             /\ inflight'[Len(inflight')].batch = BufferAdd(buffer, bufMax, op'.entry) ) ]_vars

\* C18: after destroy() has returned, no timer-driven flush of the Logger
\* starts again.
NoTimerAfterDestroy == [][ destroyed => op'.name # "timer" ]_vars

\* C19: after destroy() has returned, an error or unhandledrejection event of
\* the window produces no log entry through the Logger.
NoEntryAfterDestroy ==
  [][ (destroyed /\ op'.name = "log") => op'.entry = 0 ]_vars

\* ----------------------------------------------------------------------
\* Claims about the schedule, the sinks and the remote adapter

\* C21: a Logger has at most one active flush timer, the one whose handle it
\* holds; it fires at the most recently configured interval, no timer of an
\* earlier interval fires again, and an interval of 0 leaves no active timer.
OneTimerAtConfiguredInterval ==
  /\ Cardinality(liveTimers) <= 1
  /\ \A t \in liveTimers : t.h = flushTimer /\ t.every = config.flushInterval
  /\ config.flushInterval = 0 => liveTimers = {}
  /\ op.name = "timer" => op.every = config.flushInterval

\* the timer of a reconfigured interval has fired
RetimedTimerFired ==
  /\ op.name = "timer" /\ op.every = 1000
  /\ liveTimers = {[h |-> flushTimer, every |-> 1000]}

\* C22: when log() returns, the entry has been added to the ring buffer and,
\* if storage is enabled, is the newest entry of the durable store, and no
\* transmission that the call started has made more than its first request.
LogIsSynchronous ==
  [][ (op'.name = "log" /\ op'.entry # 0) =>
        LET b1 == BufferAdd(buffer, bufMax, op'.entry)
        IN  /\ config.enableStorage =>
                 (persisted' # <<>> /\ persisted'[Len(persisted')] = op'.entry)
            /\ \/ buffer' = b1 /\ inflight' = inflight
               \/ /\ buffer' = <<>>
                  /\ Len(inflight') = Len(inflight) + 1
                  /\ inflight'[Len(inflight')].batch = b1
                  /\ inflight'[Len(inflight')].attempt = 1
                  /\ inflight'[Len(inflight')].tries = <<>>
                  /\ \A i \in 1..Len(inflight) : inflight'[i] = inflight[i] ]_vars

\* log() has returned with its entry persisted and in a batch whose first
\* request is still pending
LogReturnedBeforeDelivery ==
  /\ op.name = "log" /\ op.entry # 0
  /\ persisted # <<>> /\ persisted[Len(persisted)] = op.entry
  /\ inflight # <<>>
  /\ op.entry \in Range(inflight[Len(inflight)].batch)
  /\ inflight[Len(inflight)].tries = <<>>
  /\ buffer = <<>>

\* C30: while enableStorage is false log() leaves the durable store
\* unchanged, while enableConsole is false it writes nothing to the console,
\* and while enableRemote is false neither log(), the timer nor destroy()
\* drains the buffer or starts a transmission.
OnlyEnabledSinks ==
  [][ /\ (op'.name = "log" /\ ~config.enableStorage) => persisted' = persisted
      /\ (op'.name = "log" /\ ~config.enableConsole) => ~op'.console
      /\ (op'.name \in {"log", "timer", "destroy"} /\ ~config.enableRemote) =>
           /\ inflight' = inflight
           /\ op'.name # "log" => buffer' = buffer ]_vars

\* the timer fired on a full buffer of a Logger with storage and remote
\* delivery off: nothing was persisted and nothing sent
DisabledSinksUntouched ==
  /\ op.name = "timer"
  /\ ~config.enableRemote /\ ~config.enableStorage
  /\ Len(buffer) = bufMax
  /\ persisted = <<>> /\ inflight = <<>>

\* ----------------------------------------------------------------------
\* Claims about the session, the tracker and the CSV export

\* the calendar day of a moment
DayOf(t) == t \div MomentsPerDay

\* C23: a new SessionManager returns the stored id and keeps the record when
\* the record's start time is on the calendar day of the construction; in
\* every other case it mints an id different from the stored one and
\* replaces the record with one that starts now.
RecoveredOnlySameDay ==
  [][ op'.name = "newManager" =>
        IF session # NoSession /\ DayOf(session.startTime) = DayOf(clock)
          THEN sessionId' = session.id /\ session' = session
          ELSE /\ sessionId' # NoId
               /\ sessionId' # session.id
               /\ session' = [id |-> sessionId', startTime |-> clock] ]_vars

\* a record started late on one day, a manager built early on the next
NewSessionAfterMidnight ==
  /\ op.name = "newManager"
  /\ op.before # NoSession
  /\ clock = op.before.startTime + 1
  /\ DayOf(clock) = DayOf(op.before.startTime) + 1
  /\ sessionId # op.before.id
  /\ session = [id |-> sessionId, startTime |-> clock]

\* C29: a Logger constructed with config.sessionId = s has s in its
\* configuration, and every entry it creates carries the configured id.
SessionIdAsConfigured ==
  /\ (op.name = "new" /\ op.given # NoId) => config.sessionId = op.given
  /\ (op.name = "log" /\ op.console) => op.entry.sessionId = config.sessionId

\* C25: when fn throws or its promise rejects, the label is not active after
\* the call and the caller receives the error that fn raised.
FailedMeasureClearsLabel ==
  (op.name \in {"measure", "settled"} /\ op.outcome \in {"throws", "rejects"}) =>
    /\ op.label \notin DOMAIN measurements
    /\ op.thrown = op.raised

\* C26: every measure() calls start once, then end once: a call that has
\* returned a pending promise has called start only, and end follows when
\* the promise settles.
StartOnceEndOnce ==
  /\ op.name \in {"measure", "settled"} =>
       op.calls = IF op.outcome = "pending" THEN <<"start">> ELSE <<"start", "end">>
  /\ \A i \in 1..Len(pending) : pending[i].calls = <<"start">>

\* the promise that fn returned has rejected: start at the call, end at the
\* rejection, and the caller's promise rejects with the error of fn
MeasuredEveryOutcome ==
  /\ op.name = "settled" /\ op.outcome = "rejects"
  /\ op.calls = <<"start", "end">>
  /\ op.thrown = FnError

\* C27: end(label) of a label that is not active returns 0, does not throw,
\* logs one warning and no measurement, and leaves the active labels as
\* they were.
EndOfUnknownLabel ==
  [][ (op'.name = "end" /\ op'.label \notin DOMAIN measurements) =>
        /\ op'.result = 0
        /\ ~op'.threw
        /\ op'.logged = <<"warn">>
        /\ measurements' = measurements ]_vars

\* end("b") while only "a" is active
EndedUnknownLabel ==
  /\ op.name = "end" /\ op.label = "b" /\ op.logged = <<"warn">>
  /\ DOMAIN measurements = {"a"}

\* C28: an escaped value is the value itself when it has no comma, quote or
\* newline and is otherwise the value in quotes with its quotes doubled, and
\* a CSV reader finds in the exported row exactly one record with the
\* original field values.
CsvRoundTrip ==
  /\ op.name \in {"row", "read"} =>
       \A k \in 1..Len(op.row) :
         LET v == op.row[k]
             special == \E i \in 1..Len(v) : v[i] \in {",", "\"", "\n"}
         IN  IF special
               THEN /\ Head(EscapeCsvValue(v)) = "\""
                    /\ EscapeCsvValue(v)[Len(EscapeCsvValue(v))] = "\""
                    /\ Len(EscapeCsvValue(v)) = Len(v) + 2 + Count(v, "\"")
               ELSE EscapeCsvValue(v) = v
  /\ op.name = "read" => op.records = <<op.row>>

\* a message with a quote and a comma was exported and read back
ReadBackQuoteAndComma ==
  /\ op.name = "read"
  /\ op.row[1] = <<"\"", ",">>
  /\ op.row[2] = <<"\n", "a">>
  /\ op.records = <<op.row>>

\* C24: sendBatch without an endpoint or with an empty batch completes at
\* once and successfully: no request, no backoff delay, nothing in flight.
SendBatchNoOp ==
  [][ (op'.name = "sent" /\ (remote.endpoint = "" \/ op'.batch = <<>>)) =>
        /\ op'.ok
        /\ op'.tries = <<>>
        /\ op'.waits = <<>>
        /\ inflight' = inflight ]_vars

\* a batch of two entries was given to an adapter without an endpoint
SentNothingWithoutEndpoint ==
  /\ op.name = "sent" /\ op.ok
  /\ remote.endpoint = ""
  /\ op.batch = <<1, 2>>
  /\ op.tries = <<>> /\ op.waits = <<>>
  /\ inflight = <<>>

\* ----------------------------------------------------------------------
\* Claims about delivery, the staging path and the two stores

\* the entries that are in some batch being sent
Staged(infl) == UNION {Range(infl[i].batch) : i \in 1..Len(infl)}

\* C31: a flush loses no entry: what the timer, destroy() or a full buffer
\* drains is in a batch being sent or still in the ring buffer, and the
\* batch of a flush that completes without success is back in the ring
\* buffer.
NoDrainedEntryLost ==
  [][ /\ op'.name \in {"timer", "destroy"} =>
           Range(buffer) \subseteq (Range(buffer') \cup Staged(inflight'))
      /\ (op'.name = "log" /\ op'.entry # 0) =>
           Range(BufferAdd(buffer, bufMax, op'.entry))
             \subseteq (Range(buffer') \cup Staged(inflight'))
      /\ (op'.name = "sent" /\ op'.caller = "flush" /\ ~op'.ok) =>
           Range(op'.batch) \subseteq Range(buffer') ]_vars

\* C32: once log() is no longer called, every entry that is in the ring
\* buffer is eventually delivered and the ring buffer eventually stays empty.
EventualDelivery ==
  /\ \A e \in 1..MaxLogs :
       [](( nextId > MaxLogs /\ e \in Range(buffer) ) =>
            <>( op.name = "sent" /\ op.ok /\ e \in Range(op.batch) ))
  /\ [](nextId > MaxLogs => <>[](buffer = <<>>))

\* C33: in the step that follows the return of clearLogs(), no entry logged
\* before the call comes back into the ring buffer and no further request
\* is made for a batch of such entries.
ClearedEntriesStayGone ==
  [][ op.name = "clearLogs" =>
        /\ \A e \in Range(buffer') : e >= nextId
        /\ op'.name # "attempt" ]_vars

\* C34: no entry is staged twice: the ring buffer holds no entry twice, no
\* two batches being sent share an entry, and no entry of a batch being
\* sent is in the ring buffer.
StagedOnce ==
  /\ \A i, j \in 1..Len(buffer) : i # j => buffer[i] # buffer[j]
  /\ \A i, j \in 1..Len(inflight) :
       i # j => Range(inflight[i].batch) \cap Range(inflight[j].batch) = {}
  /\ \A i \in 1..Len(inflight) :
       /\ Range(inflight[i].batch) \cap Range(buffer) = {}
       /\ \A k, l \in 1..Len(inflight[i].batch) :
            k # l => inflight[i].batch[k] # inflight[i].batch[l]

\* a failed flush has requeued its batch while a later batch is being sent
RequeuedBesideInFlight ==
  /\ op.name = "sent" /\ ~op.ok /\ op.caller = "flush"
  /\ Range(op.batch) \subseteq Range(buffer)
  /\ inflight # <<>>

\* C35: a flush, a request that succeeds or fails, a retry and a requeue
\* leave the durable store unchanged; in a log() step the ring buffer
\* changes by its own rule only (append, drop the oldest at capacity, drain
\* when full), whatever the durable store evicts or recovers, and the
\* durable store changes by the rule of store() only, whatever the ring
\* buffer drops.
StoresDecoupled ==
  [][ /\ op'.name \in {"timer", "sent", "retry", "attempt"} => persisted' = persisted
      /\ (op'.name = "log" /\ op'.entry # 0) =>
           /\ buffer' \in {Append(IF Len(buffer) >= bufMax THEN Tail(buffer) ELSE buffer,
                                  op'.entry), <<>>}
           /\ persisted' \in
                {StoreRun(persisted, storeMax, op'.entry, env.outs, env.tail).persisted :
                   env \in LoggerStoreEnvs} ]_vars

\* the durable store of capacity 1 has evicted entry 1, which a failed flush
\* has just put back into the ring buffer; the store still holds entry 2
EvictedButRequeued ==
  /\ op.name = "sent" /\ ~op.ok
  /\ storeMax = 1 /\ persisted = <<2>>
  /\ buffer = <<1, 2>>

\* ----------------------------------------------------------------------
\* Claims about measurements and renewed sessions

\* C36: end(label) of an active label, whatever timestamp its latest start
\* recorded, removes the label, returns the time elapsed since that start
\* and reports it at INFO.
EndClosesMeasurement ==
  [][ (op'.name = "end" /\ op'.label \in DOMAIN measurements) =>
        /\ op'.label \notin DOMAIN measurements'
        /\ op'.result = clock - measurements[op'.label]
        /\ op'.logged = <<"info">> ]_vars

\* C37: after renewSession() the record in sessionStorage holds the renewed
\* id and a start time on the day of the renewal, so that a SessionManager
\* built on that day recovers the renewed id.
RenewedRecordRecoverable ==
  op.name = "renewSession" =>
    /\ session.id = sessionId
    /\ DayOf(session.startTime) = DayOf(clock)
    /\ NewSessionManager(session, clock, minted).sessionId = sessionId

Logged(k) == [i \in 1..k |-> i]

\* C39: the flush that follows setConfig({enableRemote: true}) transmits
\* the entries that the ring buffer held when remote delivery was enabled,
\* the most recent min(k, capacity) entries logged until then.
FlushSendsBacklog ==
  [][ (op.name = "setConfig" /\ config.enableRemote /\ Len(inflight') > Len(inflight)) =>
        /\ buffer = LastN(Logged(nextId - 1), bufMax)
        /\ Range(buffer) \subseteq Range(inflight'[Len(inflight')].batch) ]_vars

\* C39, amended: while remote delivery is off the ring buffer holds the most
\* recent min(k, capacity) of the k entries logged; after it has been
\* enabled a timer flush transmits the whole buffer, and a flush started by
\* a log() that fills the buffer transmits the buffer after the add, which
\* has dropped the oldest entry of a buffer that was already full.
BacklogSentUpToNextAdd ==
  /\ [](~config.enableRemote => buffer = LastN(Logged(nextId - 1), bufMax))
  /\ [][ /\ (op'.name = "timer" /\ config.enableRemote /\ buffer # <<>>) =>
              /\ buffer' = <<>>
              /\ inflight' = Append(inflight, NewSend(buffer, "flush"))
         /\ (op'.name = "log" /\ op'.entry # 0 /\ Len(inflight') > Len(inflight)) =>
              /\ buffer' = <<>>
              /\ inflight'[Len(inflight')].batch =
                   Append(IF Len(buffer) >= bufMax THEN Tail(buffer) ELSE buffer,
                          op'.entry) ]_vars

\* the first timer flush has sent the 2 entries that a buffer of capacity 2
\* held when remote delivery was enabled
BacklogSentByTimer ==
  /\ op.name = "timer" /\ op.started
  /\ bufMax = MaxBuf
  /\ Len(inflight) = 1
  /\ inflight[1].batch = LastN(Logged(nextId - 1), bufMax)
  /\ Len(inflight[1].batch) > 1
  /\ inflight[1].tries = <<>>

\* ----------------------------------------------------------------------
\* Claims about overlapping measurements

\* C40: of two pending measure() calls with the same label, whose shared
\* start timestamp is the one the second start recorded, the call that
\* settles first removes the label and reports at INFO the duration since
\* that timestamp; the call that settles second finds no start, logs a
\* warning and reports no measurement; each settles with the outcome of its
\* own operation.
OverlappingMeasuresShareStart ==
  [][ /\ ( /\ Len(pending) = 2
           /\ pending[1].label = pending[2].label
           /\ pending[1].label \in DOMAIN measurements
           /\ op'.name = "settled" ) =>
             /\ op'.label \notin DOMAIN measurements'
             /\ "info" \in Range(op'.logged)
             /\ "warn" \notin Range(op'.logged)
             /\ EndRun(measurements, op'.label, clock).result
                  = clock - measurements[op'.label]
             /\ op'.thrown = op'.raised
      /\ ( /\ Len(pending) = 1
           /\ pending[1].label \notin DOMAIN measurements
           /\ op'.name = "settled" ) =>
             /\ measurements' = measurements
             /\ "warn" \in Range(op'.logged)
             /\ "info" \notin Range(op'.logged)
             /\ op'.thrown = op'.raised ]_vars

====
